---- MODULE Spec2Model ----
(***************************************************************************)
(* Symptom/disease analysis and report severity of the medit backend       *)
(* (backend/app/ai_assistant.py, backend/app/llm/*.py, backend/main.py).   *)
(*                                                                         *)
(* Strings of the knowledge base are written in romanised form.  A string  *)
(* that takes part in substring matching has a spelling: the sequence of   *)
(* its characters (one Hangul syllable = one character, "SP" = blank,      *)
(* "NL" = line feed).  Probabilities are kept in tenths (50.0 -> 500).     *)
(***************************************************************************)
EXTENDS Integers, Sequences, FiniteSets, TLC

VARIABLES
    hashSeed,            \* string-hash seed of the running interpreter
    general_suggestions, \* module global general_suggestions
    messages,            \* ConversationMessage rows of the conversation, by created_at
    diseases,            \* Disease rows; the id of a row is its position
    pc,                  \* position of analyze_conversation_for_diseases
    text,                \* conversation_text of the call
    llmCalls,            \* analyze_text invocations so far
    fallbackRuns,        \* fallback_analyze_conversation invocations so far
    delegated,           \* outcome of the delegated attempt: "none", "success", "failure"
    rawReply,            \* what the model answered to analyze_text
    readMessages,        \* the rows the call read from conversation_messages
    result,              \* value returned to the caller (meaningful once pc = "done")
    raised,              \* TRUE when the call ended with an exception
    prevRun,             \* the fallback run before the last one
    lastRun,             \* the last fallback run: its text, the rows before it, its result
    restarts,            \* interpreter restarts so far
    rpc,                 \* position of generate_conversation_report
    analysis_data,       \* its analysis_data argument
    narrative,           \* text returned by generate_chat
    reportPath,          \* strategy that produced the report: "none", "delegated", "fallback"
    report,              \* value returned by generate_conversation_report
    lookup,              \* per request: where its find-or-create of a Disease row stands
    posts,               \* per handler invocation on the conversation: position and locals
    reports,             \* ConversationReport rows of the conversation, by commit
    commits,             \* session.commit() calls so far
    analyst              \* the invocation whose analysis and report calls are running

vars == <<hashSeed, general_suggestions, messages, diseases, pc, text, llmCalls,
          fallbackRuns, delegated, rawReply, readMessages, result, raised, prevRun,
          lastRun, restarts, rpc, analysis_data, narrative, reportPath, report, lookup,
          posts, reports, commits, analyst>>

(***************************************************************************)
(* Bounds of the model.                                                    *)
(***************************************************************************)
MaxWords == 1
MaxMsgs == 2
NumSeeds == 2
MaxRuns == 3
MaxRestarts == 1

(***************************************************************************)
(* Generic helpers.                                                        *)
(***************************************************************************)
Range(s) == {s[i] : i \in DOMAIN s}

Min(a, b) == IF a < b THEN a ELSE b

Take(s, n) == SubSeq(s, 1, Min(n, Len(s)))

\* d.get(k, default)
Get(d, k, default) == IF k \in DOMAIN d THEN d[k] ELSE default

(***************************************************************************)
(* Knowledge base (ai_assistant.py lines 44-95).                           *)
(***************************************************************************)
common_symptoms ==
    <<"dutong", "boktong", "yeol", "gichim", "eojireoum", "piro", "meseukkeoum",
      "seolsa", "geunyuktong", "baryeol", "inhutong", "konmul", "baljin",
      "gwanjeoltong">>

\* keys of symptom_disease_map in insertion order
SymptomKeys ==
    <<"dutong", "boktong", "yeol", "gichim", "eojireoum", "piro", "meseukkeoum",
      "seolsa", "geunyuktong", "baryeol", "inhutong", "konmul", "baljin",
      "gwanjeoltong">>

symptom_disease_map ==
    [dutong       |-> <<"pyeondutong", "ginjangseong_dutong", "gunbalseong_dutong">>,
     boktong      |-> <<"wiyeom", "jangyeom", "gwaminseong_daejang_jeunghugun">>,
     yeol         |-> <<"gamgi", "dokgam", "corona19">>,
     gichim       |-> <<"gamgi", "gigwanjiyeom", "corona19">>,
     eojireoum    |-> <<"binhyeol", "hyeongijeung", "jeohyeorap">>,
     piro         |-> <<"manseongpirojeunghugun", "binhyeol", "gapsangseon_gineung_jeohajeung">>,
     meseukkeoum  |-> <<"wiyeom", "meolmi", "pyeondutong">>,
     seolsa       |-> <<"jangyeom", "gwaminseong_daejang_jeunghugun", "sikjungdok">>,
     geunyuktong  |-> <<"geunyukyeom", "dokgam", "seomyugeunyuktong">>,
     baryeol      |-> <<"gamgi", "dokgam", "pyeryeom">>,
     inhutong     |-> <<"induyeom", "pyeondoyeom", "huduyeom">>,
     konmul       |-> <<"biyeom", "gamgi", "allergy">>,
     baljin       |-> <<"allergy", "seupjin", "sudu">>,
     gwanjeoltong |-> <<"gwanjeolyeom", "ryumatiseu_gwanjeolyeom", "tongpung">>]

\* values of symptom_disease_map flattened (lines 390-392)
all_diseases == UNION {Range(symptom_disease_map[s]) : s \in Range(SymptomKeys)}

\* reverse map built at import (lines 68-73): the symptoms of a disease, in key order
RECURSIVE SymptomsOf(_, _)
SymptomsOf(d, i) ==
    IF i > Len(SymptomKeys) THEN <<>>
    ELSE LET s == SymptomKeys[i]
             n == Cardinality({j \in DOMAIN symptom_disease_map[s] :
                                  symptom_disease_map[s][j] = d})
             rest == SymptomsOf(d, i + 1)
         IN  IF n = 0 THEN rest
             ELSE [j \in 1..n |-> s] \o rest

disease_symptoms == [d \in all_diseases |-> SymptomsOf(d, 1)]

disease_suggestions ==
    [pyeondutong         |-> <<"sg_enough_sleep", "sg_manage_stress", "sg_regular_exercise">>,
     ginjangseong_dutong |-> <<"sg_neck_stretch", "sg_stress_care", "sg_warm_bath">>,
     wiyeom              |-> <<"sg_avoid_spicy", "sg_small_meals", "sg_no_alcohol">>,
     jangyeom            |-> <<"sg_enough_fluids", "sg_light_food", "sg_take_rest">>,
     gamgi               |-> <<"sg_enough_rest", "sg_fluids", "sg_vitamin_c">>,
     dokgam              |-> <<"sg_rest_home", "sg_antipyretic", "sg_enough_fluids">>,
     binhyeol            |-> <<"sg_iron_food", "sg_iron_vitamin_c", "sg_no_overwork">>,
     jeohyeorap          |-> <<"sg_rise_slowly", "sg_small_meals", "sg_enough_fluids">>,
     allergy             |-> <<"sg_avoid_allergen", "sg_antihistamine", "sg_see_doctor">>]

\* load-time value of general_suggestions (lines 89-95)
GeneralSuggestionsInit ==
    <<"g_rest_sleep", "g_drink_water", "g_balanced_diet", "g_regular_exercise",
      "g_manage_stress">>

(***************************************************************************)
(* Spellings: the characters of the strings that are matched against text. *)
(***************************************************************************)
Spelling ==
    [dutong       |-> <<"du", "tong">>,
     boktong      |-> <<"bok", "tong">>,
     yeol         |-> <<"yeol">>,
     gichim       |-> <<"gi", "chim">>,
     eojireoum    |-> <<"eo", "ji", "reo", "um">>,
     piro         |-> <<"pi", "ro">>,
     meseukkeoum  |-> <<"me", "seu", "kkeo", "um">>,
     seolsa       |-> <<"seol", "sa">>,
     geunyuktong  |-> <<"geun", "yuk", "tong">>,
     baryeol      |-> <<"bal", "yeol">>,
     inhutong     |-> <<"in", "hu", "tong">>,
     konmul       |-> <<"kot", "mul">>,
     baljin       |-> <<"bal", "jin">>,
     gwanjeoltong |-> <<"gwan", "jeol", "tong">>,
     pyeondutong  |-> <<"pyeon", "du", "tong">>,
     ginjangseong_dutong |-> <<"gin", "jang", "seong", "SP", "du", "tong">>,
     gunbalseong_dutong  |-> <<"gun", "bal", "seong", "SP", "du", "tong">>,
     wiyeom       |-> <<"wi", "yeom">>,
     jangyeom     |-> <<"jang", "yeom">>,
     gwaminseong_daejang_jeunghugun |->
         <<"gwa", "min", "seong", "SP", "dae", "jang", "SP", "jeung", "hu", "gun">>,
     gamgi        |-> <<"gam", "gi">>,
     dokgam       |-> <<"dok", "gam">>,
     corona19     |-> <<"ko", "ro", "na", "1", "9">>,
     gigwanjiyeom |-> <<"gi", "gwan", "ji", "yeom">>,
     binhyeol     |-> <<"bin", "hyeol">>,
     hyeongijeung |-> <<"hyeon", "gi", "jeung">>,
     jeohyeorap   |-> <<"jeo", "hyeol", "ap">>,
     manseongpirojeunghugun |-> <<"man", "seong", "pi", "ro", "jeung", "hu", "gun">>,
     gapsangseon_gineung_jeohajeung |->
         <<"gap", "sang", "seon", "SP", "gi", "neung", "SP", "jeo", "ha", "jeung">>,
     meolmi       |-> <<"meol", "mi">>,
     sikjungdok   |-> <<"sik", "jung", "dok">>,
     geunyukyeom  |-> <<"geun", "yuk", "yeom">>,
     seomyugeunyuktong |-> <<"seom", "yu", "geun", "yuk", "tong">>,
     pyeryeom     |-> <<"pye", "ryeom">>,
     induyeom     |-> <<"in", "du", "yeom">>,
     pyeondoyeom  |-> <<"pyeon", "do", "yeom">>,
     huduyeom     |-> <<"hu", "du", "yeom">>,
     biyeom       |-> <<"bi", "yeom">>,
     allergy      |-> <<"al", "re", "reu", "gi">>,
     seupjin      |-> <<"seup", "jin">>,
     sudu         |-> <<"su", "du">>,
     gwanjeolyeom |-> <<"gwan", "jeol", "yeom">>,
     ryumatiseu_gwanjeolyeom |-> <<"ryu", "ma", "ti", "seu", "SP", "gwan", "jeol", "yeom">>,
     tongpung     |-> <<"tong", "pung">>]

\* str.lower() on one character: only Latin capitals change
LowerChar(c) == IF c = "O" THEN "o" ELSE IF c = "K" THEN "k" ELSE c

\* str.lower()
Lower(s) == [i \in DOMAIN s |-> LowerChar(s[i])]

\* needle in haystack (substring test on strings)
Contains(haystack, needle) ==
    \E i \in 1..(Len(haystack) - Len(needle) + 1) :
        \A j \in 1..Len(needle) : haystack[i + j - 1] = needle[j]

(***************************************************************************)
(* Iteration order of a Python set of strings.  It is fixed by the hashes  *)
(* of the strings, which the interpreter salts with a seed drawn when the  *)
(* process starts: the order is a function of the seed and the members.    *)
(***************************************************************************)
\* strings the model can put in a set, numbered
StringPool ==
    SymptomKeys \o
    <<"pyeondutong", "ginjangseong_dutong", "gunbalseong_dutong", "wiyeom", "jangyeom",
      "gwaminseong_daejang_jeunghugun", "gamgi", "dokgam", "corona19", "gigwanjiyeom",
      "binhyeol", "hyeongijeung", "jeohyeorap", "manseongpirojeunghugun",
      "gapsangseon_gineung_jeohajeung", "meolmi", "sikjungdok", "geunyukyeom",
      "seomyugeunyuktong", "pyeryeom", "induyeom", "pyeondoyeom", "huduyeom", "biyeom",
      "allergy", "seupjin", "sudu", "gwanjeolyeom", "ryumatiseu_gwanjeolyeom", "tongpung",
      "sg_enough_sleep", "sg_manage_stress", "sg_regular_exercise", "sg_neck_stretch",
      "sg_stress_care", "sg_warm_bath", "sg_avoid_spicy", "sg_small_meals",
      "sg_no_alcohol", "sg_enough_fluids", "sg_light_food", "sg_take_rest",
      "sg_enough_rest", "sg_fluids", "sg_vitamin_c", "sg_rest_home", "sg_antipyretic",
      "sg_iron_food", "sg_iron_vitamin_c", "sg_no_overwork", "sg_rise_slowly",
      "sg_avoid_allergen", "sg_antihistamine", "sg_see_doctor">> \o
    GeneralSuggestionsInit \o
    <<"llm_a", "llm_b", "llm_c", "llm_d", "llm_e", "llm_f", "llm_disease", "">>

StrIndex == [e \in Range(StringPool) |-> CHOOSE i \in DOMAIN StringPool : StringPool[i] = e]

Seeds == 0..(NumSeeds - 1)

\* slot of a string in the hash table under a seed
HashKey(seed, e) == ((41 * seed + 1) * StrIndex[e] + 13 * seed) % 97

\* list(S) / for x in S, for a set S of strings
RECURSIVE SetToList(_, _)
SetToList(S, seed) ==
    IF S = {} THEN <<>>
    ELSE LET m == CHOOSE x \in S : \A y \in S : HashKey(seed, x) <= HashKey(seed, y)
         IN  <<m>> \o SetToList(S \ {m}, seed)

\* variant of SortedDesc that leaves the list in the order it came in
SortedDescSkipped(xs, p) == xs

\* sorted(xs, key=lambda x: p[x], reverse=True): stable, equal keys keep their order
RECURSIVE SortedDesc(_, _)
SortedDesc(xs, p) ==
    IF xs = <<>> THEN <<>>
    ELSE LET init == SortedDesc(SubSeq(xs, 1, Len(xs) - 1), p)
             x == xs[Len(xs)]
             k == Cardinality({i \in DOMAIN init : p[init[i]] >= p[x]})
         IN  SubSeq(init, 1, k) \o <<x>> \o SubSeq(init, k + 1, Len(init))

(***************************************************************************)
(* fallback_analyze_conversation, lines 379-463: the computation that      *)
(* reads no storage.                                                       *)
(***************************************************************************)
\* lines 379-385: the symptom keywords found in the lower-cased text
KeywordSymptoms(conversation_text_lower) ==
    {s \in Range(common_symptoms) : Contains(conversation_text_lower, Lower(Spelling[s]))}

\* lines 388-396: the disease names found in the lower-cased text
directly_mentioned_diseases(conversation_text_lower) ==
    {d \in all_diseases : Contains(conversation_text_lower, Lower(Spelling[d]))}

\* variant of detected_symptoms without the back-fill of lines 397-400
detected_symptoms_keywords_only(conversation_text_lower, mentioned) ==
    KeywordSymptoms(conversation_text_lower)

\* lines 382-400: keyword hits plus the symptoms of every mentioned disease
detected_symptoms(conversation_text_lower, mentioned) ==
    KeywordSymptoms(conversation_text_lower) \cup
    {s \in Range(SymptomKeys) : \E d \in mentioned : d \in Range(symptom_disease_map[s])}

\* lines 411-422
possible_diseases(symptoms, mentioned) ==
    UNION {Range(Get(symptom_disease_map, s, <<>>)) : s \in symptoms} \cup mentioned

\* lines 414-425: disease_symptom_counts[d]
RECURSIVE Occurrences(_, _)
Occurrences(d, syms) ==
    IF syms = {} THEN 0
    ELSE LET s == CHOOSE x \in syms : TRUE
             lst == Get(symptom_disease_map, s, <<>>)
         IN  Cardinality({j \in DOMAIN lst : lst[j] = d}) + Occurrences(d, syms \ {s})

\* variant of disease_symptom_counts without the 3 added at line 425
disease_symptom_counts_no_boost(d, symptoms, mentioned) ==
    Occurrences(d, symptoms)

disease_symptom_counts(d, symptoms, mentioned) ==
    Occurrences(d, symptoms) + (IF d \in mentioned THEN 3 ELSE 0)

\* round(min(95, max(50, m / t * 100)), 1), in tenths
ClampedShare(m, t) ==
    IF m * 100 < 50 * t THEN 500
    ELSE IF m * 100 > 95 * t THEN 950
    ELSE (2 * m * 1000 + t) \div (2 * t)

\* variant of probability that forgets the cap of 95 on a mentioned disease
probability_uncapped(d, symptoms, mentioned) ==
    IF d \in mentioned
    THEN 800 + (disease_symptom_counts(d, symptoms, mentioned) - 3) * 50
    ELSE LET matched_symptom_count == disease_symptom_counts(d, symptoms, mentioned)
             total_symptom_count == Len(Get(disease_symptoms, d, <<>>))
         IN  IF total_symptom_count > 0
             THEN ClampedShare(matched_symptom_count, total_symptom_count)
             ELSE 500

\* lines 429-446, in tenths
probability(d, symptoms, mentioned) ==
    IF d \in mentioned
    THEN Min(950, 800 + (disease_symptom_counts(d, symptoms, mentioned) - 3) * 50)
    ELSE LET matched_symptom_count == disease_symptom_counts(d, symptoms, mentioned)
             total_symptom_count == Len(Get(disease_symptoms, d, <<>>))
         IN  IF total_symptom_count > 0
             THEN ClampedShare(matched_symptom_count, total_symptom_count)
             ELSE 500

\* lines 456-463, 495
collected_suggestions(sorted_diseases, gen) ==
    LET top == Range(Take(sorted_diseases, 3))
        own == UNION {Range(disease_suggestions[d]) : d \in top \cap DOMAIN disease_suggestions}
    IN  IF Cardinality(own) < 5 THEN own \cup Range(gen) ELSE own

\* lines 379-463: the locals of one run
FallbackCompute(txt, seed, gen) ==
    LET conversation_text_lower == Lower(txt)
        mentioned == directly_mentioned_diseases(conversation_text_lower)
        symptoms == detected_symptoms(conversation_text_lower, mentioned)
        possible == possible_diseases(symptoms, mentioned)
        probs == [d \in possible |-> probability(d, symptoms, mentioned)]
        sorted == SortedDesc(SetToList(possible, seed), probs)
    IN  [findings |-> symptoms # {} \/ mentioned # {},
         mentioned |-> mentioned,
         symptoms |-> SetToList(symptoms, seed),
         sorted_diseases |-> sorted,
         disease_probabilities |-> probs,
         suggestions |-> Take(SetToList(collected_suggestions(sorted, gen), seed), 5)]

(***************************************************************************)
(* Storage: the diseases table.                                            *)
(***************************************************************************)
\* variant of SelectDisease that never finds a row
SelectDiseaseMisses(db, name) == 0

\* select(Disease).where(Disease.name == name).first(): 0 when there is no row
SelectDisease(db, name) ==
    LET hits == {i \in DOMAIN db : db[i].name = name}
    IN  IF hits = {} THEN 0 ELSE CHOOSE i \in hits : \A j \in hits : i <= j

\* variant of InsertDisease under a unique constraint on name: a second row
\* of a name is refused
InsertDiseaseUnique(db, name) ==
    IF \E i \in DOMAIN db : db[i].name = name THEN db
    ELSE Append(db, [id |-> Len(db) + 1, name |-> name])

\* session.add(Disease(name=...)); commit; refresh: the new row gets the next id
InsertDisease(db, name) == Append(db, [id |-> Len(db) + 1, name |-> name])

\* lines 467-490: find or create every ranked disease, collecting the entries
RECURSIVE FallbackRows(_, _, _, _)
FallbackRows(db, sorted, probs, out) ==
    IF sorted = <<>> THEN [db |-> db, out |-> out]
    ELSE LET disease == Head(sorted)
             found == SelectDisease(db, disease)
             db2 == IF found = 0 THEN InsertDisease(db, disease) ELSE db
             id == IF found = 0 THEN Len(db2) ELSE found
         IN  FallbackRows(db2, Tail(sorted), probs,
                          Append(out, [id |-> id, name |-> disease,
                                       probability |-> probs[disease]]))

\* variant of fallback_analyze_conversation without the early return of lines 403-408
fallback_analyze_conversation_no_early_return(txt, db, seed, gen) ==
    LET c == FallbackCompute(txt, seed, gen)
        rows == FallbackRows(db, c.sorted_diseases, c.disease_probabilities, <<>>)
    IN  [db |-> rows.db,
         result |-> [symptoms |-> c.symptoms,
                     diseases_with_probabilities |-> rows.out,
                     suggestions |-> c.suggestions]]

\* fallback_analyze_conversation(conversation_text, session), lines 375-496
fallback_analyze_conversation(txt, db, seed, gen) ==
    LET c == FallbackCompute(txt, seed, gen)
        rows == FallbackRows(db, c.sorted_diseases, c.disease_probabilities, <<>>)
    IN  IF ~c.findings
        THEN [db |-> db,
              result |-> [symptoms |-> <<>>, diseases_with_probabilities |-> <<>>,
                          suggestions |-> gen]]
        ELSE [db |-> rows.db,
              result |-> [symptoms |-> c.symptoms,
                          diseases_with_probabilities |-> rows.out,
                          suggestions |-> c.suggestions]]

(***************************************************************************)
(* Texts handed to the local pipeline.                                     *)
(***************************************************************************)
Phrases ==
    { <<"du", "tong", "i", "SP", "sim", "hae", "yo">>,
      <<"ui", "sa", "ga", "SP", "gam", "gi", "ra", "go", "SP", "haet", "eo", "yo">>,
      <<"an", "nyeong", "ha", "se", "yo", "SP", "o", "neul", "SP", "gi", "bun", "i",
        "SP", "jo", "a", "yo">>,
      <<"du", "tong", "gwa", "SP", "me", "seu", "kkeo", "um">>,
      <<"O", "K">> }

Words == {Spelling[k] : k \in DOMAIN Spelling} \cup Phrases

RECURSIVE Texts(_)
Texts(n) ==
    IF n = 0 THEN {<<>>}
    ELSE LET shorter == Texts(n - 1)
         IN  shorter \cup {IF t = <<>> THEN w ELSE t \o <<"SP">> \o w :
                             t \in shorter, w \in Words}

(***************************************************************************)
(* The text-analysis collaborator (llm/openai_service.py, bedrock_service) *)
(***************************************************************************)
\* one element of possible_diseases that is a JSON object
Entry(name, p) == [t |-> "dict", v |-> [name |-> name, probability |-> p]]

EntryNoProbability(name) == [t |-> "dict", v |-> [name |-> name]]

EntryNoName(p) == [t |-> "dict", v |-> [probability |-> p]]

\* an element that is not a JSON object
NotADict == [t |-> "str", v |-> [raw |-> "llm_a"]]

SymptomOptions == {[present |-> FALSE, v |-> <<>>], [present |-> TRUE, v |-> <<"dutong">>]}

DiseaseOptions ==
    { [present |-> FALSE, v |-> <<>>],
      [present |-> TRUE, v |-> <<Entry("gamgi", 700)>>],
      [present |-> TRUE, v |-> <<Entry("llm_disease", 1200), EntryNoProbability("gamgi")>>],
      [present |-> TRUE, v |-> <<EntryNoName(600)>>],
      [present |-> TRUE, v |-> <<Entry("llm_disease", 600), NotADict>>],
      [present |-> TRUE, v |-> <<Entry("gamgi", 700), Entry("gamgi", 300)>>] }

SuggestionOptions ==
    { [present |-> FALSE, v |-> <<>>],
      [present |-> TRUE, v |-> <<>>],
      [present |-> TRUE, v |-> <<"llm_a", "g_drink_water">>],
      [present |-> TRUE, v |-> <<"llm_a", "llm_a", "llm_b">>],
      [present |-> TRUE, v |-> <<"llm_a", "llm_b", "llm_c">>],
      [present |-> TRUE, v |-> <<"llm_a", "llm_b", "llm_c", "llm_d", "llm_e", "llm_f">>] }

\* a JSON object with the keys that are present
JsonObject(sym, pd, hs) ==
    LET keys == (IF sym.present THEN {"symptoms"} ELSE {}) \cup
                (IF pd.present THEN {"possible_diseases"} ELSE {}) \cup
                (IF hs.present THEN {"health_suggestions"} ELSE {})
        all == [symptoms |-> sym.v, possible_diseases |-> pd.v, health_suggestions |-> hs.v]
    IN  [k \in keys |-> all[k]]

\* message content the model can send back: text that is no JSON, a JSON array,
\* or a JSON object
RawResponses ==
    { [kind |-> "malformed"], [kind |-> "array"] } \cup
    { [kind |-> "object", value |-> JsonObject(sym, pd, hs)] :
        sym \in SymptomOptions, pd \in DiseaseOptions, hs \in SuggestionOptions }

\* analyze_text, openai_service.py lines 123-130 / bedrock_service.py lines 190-195:
\* json.loads(result), and a dict describing the error when that fails
analyze_text(raw) ==
    IF raw.kind = "malformed"
    THEN [t |-> "dict", v |-> [error |-> <<"json_parse_error">>, raw_response |-> <<"raw">>]]
    ELSE IF raw.kind = "array" THEN [t |-> "list", v |-> [items |-> <<>>]]
    ELSE [t |-> "dict", v |-> raw.value]

(***************************************************************************)
(* analyze_conversation_for_diseases (ai_assistant.py lines 282-371)       *)
(***************************************************************************)
\* variant of conversation_text that does not look at the sender
RECURSIVE conversation_text_any_sender(_)
conversation_text_any_sender(msgs) ==
    IF msgs = <<>> THEN <<>>
    ELSE Head(msgs).content \o <<"NL">> \o conversation_text_any_sender(Tail(msgs))

\* lines 299-302: the contents of the user's messages, each followed by a line feed
RECURSIVE conversation_text(_)
conversation_text(msgs) ==
    IF msgs = <<>> THEN <<>>
    ELSE (IF Head(msgs).sender = "user" THEN Head(msgs).content \o <<"NL">> ELSE <<>>)
         \o conversation_text(Tail(msgs))

\* variant of DelegatedRows that reports a named disease without storing it
RECURSIVE DelegatedRowsNoCreate(_, _, _)
DelegatedRowsNoCreate(db, possible, out) ==
    IF possible = <<>> THEN [db |-> db, out |-> out, raised |-> FALSE]
    ELSE LET disease_info == Head(possible)
         IN  IF disease_info.t # "dict" THEN [db |-> db, out |-> out, raised |-> TRUE]
             ELSE DelegatedRowsNoCreate(db, Tail(possible),
                      Append(out, [id |-> SelectDisease(db, Get(disease_info.v, "name", "")),
                                   name |-> Get(disease_info.v, "name", ""),
                                   probability |-> Get(disease_info.v, "probability", 500)]))

\* lines 319-352: find or create each named disease; raised when an element has no .get
RECURSIVE DelegatedRows(_, _, _)
DelegatedRows(db, possible, out) ==
    IF possible = <<>> THEN [db |-> db, out |-> out, raised |-> FALSE]
    ELSE LET disease_info == Head(possible)
         IN  IF disease_info.t # "dict" THEN [db |-> db, out |-> out, raised |-> TRUE]
             ELSE LET disease_name == Get(disease_info.v, "name", "")
                      p == Get(disease_info.v, "probability", 500)
                      found == SelectDisease(db, disease_name)
                      create == found = 0 /\ disease_name # ""
                      db2 == IF create THEN InsertDisease(db, disease_name) ELSE db
                      id == IF create THEN Len(db2) ELSE found
                  IN  DelegatedRows(db2, Tail(possible),
                                    IF id # 0
                                    THEN Append(out, [id |-> id, name |-> disease_name,
                                                      probability |-> p])
                                    ELSE out)

\* lines 355-360, 365
DelegatedSuggestions(health_suggestions, seed, gen) ==
    IF Len(health_suggestions) < 3
    THEN Take(Take(SetToList(Range(health_suggestions \o gen), seed), 5), 5)
    ELSE Take(health_suggestions, 5)

\* lines 313-366: the try block after analyze_text has returned
ProcessReply(analysis_result, db, seed, gen) ==
    IF analysis_result.t # "dict"
    THEN [raised |-> TRUE, db |-> db,
          result |-> [symptoms |-> <<>>, diseases_with_probabilities |-> <<>>,
                      suggestions |-> <<>>]]
    ELSE LET rows == DelegatedRows(db, Get(analysis_result.v, "possible_diseases", <<>>), <<>>)
         IN  [raised |-> rows.raised, db |-> rows.db,
              result |-> [symptoms |-> Get(analysis_result.v, "symptoms", <<>>),
                          diseases_with_probabilities |-> rows.out,
                          suggestions |->
                              DelegatedSuggestions(
                                  Get(analysis_result.v, "health_suggestions", <<>>),
                                  seed, gen)]]

NoResult == [symptoms |-> <<>>, diseases_with_probabilities |-> <<>>, suggestions |-> <<>>]

NoRun == [valid |-> FALSE, text |-> <<>>, before |-> <<>>, result |-> NoResult]

NoReply == [kind |-> "none"]

\* lines 291-296
EmptyResult(gen) ==
    [symptoms |-> <<>>, diseases_with_probabilities |-> <<>>, suggestions |-> gen]

reportVars == <<rpc, analysis_data, narrative, reportPath, report>>

handlerVars == <<posts, reports, commits, analyst>>

\* variant of AnalyzeStart without the early return of lines 291-296
AnalyzeStartNoEarlyReturn ==
    /\ pc = "idle"
    /\ readMessages' = messages
    /\ text' = conversation_text(messages)
    /\ \/ pc' = "failure" /\ delegated' = "failure" /\ UNCHANGED llmCalls
       \/ pc' = "await" /\ llmCalls' = llmCalls + 1 /\ UNCHANGED delegated
    /\ raised' = FALSE
    /\ UNCHANGED <<hashSeed, general_suggestions, messages, diseases, fallbackRuns,
                   rawReply, result, prevRun, lastRun, restarts>>
    /\ UNCHANGED reportVars
    /\ UNCHANGED lookup
    /\ UNCHANGED handlerVars

\* lines 285-310: read the messages; return at once when there are none; otherwise
\* build the text, build the service and send the request (or fail building it)
AnalyzeStart ==
    /\ pc = "idle"
    /\ readMessages' = messages
    /\ \/ /\ messages = <<>>
          /\ result' = EmptyResult(general_suggestions)
          /\ pc' = "done"
          /\ UNCHANGED <<text, llmCalls, delegated>>
       \/ /\ messages # <<>>
          /\ text' = conversation_text(messages)
          /\ \/ pc' = "failure" /\ delegated' = "failure" /\ UNCHANGED llmCalls
             \/ pc' = "await" /\ llmCalls' = llmCalls + 1 /\ UNCHANGED delegated
          /\ UNCHANGED result
    /\ raised' = FALSE
    /\ UNCHANGED <<hashSeed, general_suggestions, messages, diseases, fallbackRuns,
                   rawReply, prevRun, lastRun, restarts>>
    /\ UNCHANGED reportVars
    /\ UNCHANGED lookup
    /\ UNCHANGED handlerVars

\* variant of AnalyzeTextRaises that sends the request again
AnalyzeTextRaisesRetry ==
    /\ pc = "await"
    /\ llmCalls < 3
    /\ llmCalls' = llmCalls + 1
    /\ UNCHANGED <<hashSeed, general_suggestions, messages, diseases, pc, text,
                   fallbackRuns, delegated, rawReply, readMessages, result, raised,
                   prevRun, lastRun, restarts>>
    /\ UNCHANGED reportVars
    /\ UNCHANGED lookup
    /\ UNCHANGED handlerVars

\* line 307 raises (network error, timeout, an unreadable response body)
AnalyzeTextRaises ==
    /\ pc = "await"
    /\ pc' = "failure"
    /\ delegated' = "failure"
    /\ UNCHANGED <<hashSeed, general_suggestions, messages, diseases, text, llmCalls,
                   fallbackRuns, rawReply, readMessages, result, raised, prevRun, lastRun,
                   restarts>>
    /\ UNCHANGED reportVars
    /\ UNCHANGED lookup
    /\ UNCHANGED handlerVars

\* variant of AnalyzeTextReturns in which line 359 extends the module global
\* with the reply's suggestions
AnalyzeTextReturnsExtendsGlobal(raw) ==
    /\ pc = "await"
    /\ rawReply' = raw
    /\ \E r \in {ProcessReply(analyze_text(raw), diseases, hashSeed, general_suggestions)} :
           /\ diseases' = r.db
           /\ IF r.raised
              THEN /\ pc' = "failure" /\ delegated' = "failure"
                   /\ UNCHANGED <<result, general_suggestions>>
              ELSE /\ pc' = "done" /\ delegated' = "success" /\ result' = r.result
                   /\ general_suggestions' =
                          IF Len(Get(analyze_text(raw).v, "health_suggestions", <<>>)) < 3
                          THEN general_suggestions \o
                               Get(analyze_text(raw).v, "health_suggestions", <<>>)
                          ELSE general_suggestions
    /\ UNCHANGED <<hashSeed, messages, text, llmCalls, fallbackRuns,
                   readMessages, raised, prevRun, lastRun, restarts>>
    /\ UNCHANGED reportVars
    /\ UNCHANGED lookup
    /\ UNCHANGED handlerVars

\* line 307 returns and lines 313-366 run
AnalyzeTextReturns(raw) ==
    /\ pc = "await"
    /\ rawReply' = raw
    /\ \E r \in {ProcessReply(analyze_text(raw), diseases, hashSeed, general_suggestions)} :
           /\ diseases' = r.db
           /\ IF r.raised
              THEN pc' = "failure" /\ delegated' = "failure" /\ UNCHANGED result
              ELSE pc' = "done" /\ delegated' = "success" /\ result' = r.result
    /\ UNCHANGED <<hashSeed, general_suggestions, messages, text, llmCalls, fallbackRuns,
                   readMessages, raised, prevRun, lastRun, restarts>>
    /\ UNCHANGED reportVars
    /\ UNCHANGED lookup
    /\ UNCHANGED handlerVars

\* one call of fallback_analyze_conversation on the current text
DoFallback ==
    \E r \in {fallback_analyze_conversation(text, diseases, hashSeed, general_suggestions)} :
        /\ result' = r.result
        /\ diseases' = r.db
        /\ fallbackRuns' = fallbackRuns + 1
        /\ prevRun' = lastRun
        /\ lastRun' = [valid |-> TRUE, text |-> text, before |-> diseases,
                       result |-> r.result]

\* lines 368-371: the except branch
LocalFallback ==
    /\ pc = "failure"
    /\ DoFallback
    /\ pc' = "done"
    /\ raised' = FALSE
    /\ UNCHANGED <<hashSeed, general_suggestions, messages, text, llmCalls, delegated,
                   rawReply, readMessages, restarts>>
    /\ UNCHANGED reportVars
    /\ UNCHANGED lookup
    /\ UNCHANGED handlerVars

(***************************************************************************)
(* Other requests, served while the call is idle or suspended at its await *)
(***************************************************************************)
UserContents ==
    { <<"du", "tong", "i", "SP", "sim", "hae", "yo">>,
      <<"ui", "sa", "ga", "SP", "gam", "gi", "ra", "go", "SP", "haet", "eo", "yo">>,
      <<"an", "nyeong", "ha", "se", "yo">> }

AssistantContents == { <<"yeol", "i", "SP", "it", "na", "yo">> }

\* a ConversationMessage row is stored (main.py lines 709-716, 788-796)
AddMessage(sender, content) ==
    /\ pc \in {"idle", "await"}
    /\ Len(messages) < MaxMsgs
    /\ messages' = Append(messages, [sender |-> sender, content |-> content])
    /\ UNCHANGED <<hashSeed, general_suggestions, diseases, pc, text, llmCalls,
                   fallbackRuns, delegated, rawReply, readMessages, result, raised,
                   prevRun, lastRun, restarts>>
    /\ UNCHANGED reportVars
    /\ UNCHANGED lookup
    /\ UNCHANGED handlerVars

\* create_disease (main.py lines 896-921)
create_disease(name) ==
    /\ pc \in {"idle", "await"}
    /\ diseases' = IF SelectDisease(diseases, name) # 0 THEN diseases
                   ELSE InsertDisease(diseases, name)
    /\ diseases' # diseases
    /\ UNCHANGED <<hashSeed, general_suggestions, messages, pc, text, llmCalls,
                   fallbackRuns, delegated, rawReply, readMessages, result, raised,
                   prevRun, lastRun, restarts>>
    /\ UNCHANGED reportVars
    /\ UNCHANGED lookup
    /\ UNCHANGED handlerVars

(***************************************************************************)
(* Direct calls of fallback_analyze_conversation, and interpreter restarts *)
(***************************************************************************)
\* fallback_analyze_conversation(text, session), called on its own
FallbackCall ==
    /\ pc = "idle"
    /\ DoFallback
    /\ pc' = "done"
    /\ raised' = FALSE
    /\ UNCHANGED <<hashSeed, general_suggestions, messages, text, llmCalls, delegated,
                   rawReply, readMessages, restarts>>
    /\ UNCHANGED reportVars
    /\ UNCHANGED lookup
    /\ UNCHANGED handlerVars

\* the caller has the result; the next call can begin
CallReturns ==
    /\ pc = "done"
    /\ fallbackRuns < MaxRuns
    /\ pc' = "idle"
    /\ UNCHANGED <<hashSeed, general_suggestions, messages, diseases, text, llmCalls,
                   fallbackRuns, delegated, rawReply, readMessages, result, raised,
                   prevRun, lastRun, restarts>>
    /\ UNCHANGED reportVars
    /\ UNCHANGED lookup
    /\ UNCHANGED handlerVars

\* the server process is started again: the module is imported anew (lines 44-95)
\* and the interpreter draws a new hash seed; storage is kept
ProcessStart ==
    /\ pc = "idle"
    /\ restarts < MaxRestarts
    /\ restarts' = restarts + 1
    /\ hashSeed' \in Seeds
    /\ general_suggestions' = GeneralSuggestionsInit
    /\ UNCHANGED <<messages, diseases, pc, text, llmCalls, fallbackRuns, delegated,
                   rawReply, readMessages, result, raised, prevRun, lastRun>>
    /\ UNCHANGED reportVars
    /\ UNCHANGED lookup
    /\ UNCHANGED handlerVars

(***************************************************************************)
(* generate_conversation_report (ai_assistant.py lines 513-650).  A report *)
(* is a sequence of tokens: "SEVERITY_LEVEL:" and "severity_level:" are    *)
(* the marker key in the prompt's spelling and in lower case, "SP" and     *)
(* "NL" are white space, "txt" is any other text.                          *)
(***************************************************************************)
WhiteSpace == {"SP", "NL"}

\* the key of severity_pattern under re.IGNORECASE
MarkerKeys == {"SEVERITY_LEVEL:", "severity_level:"}

\* (red|orange|green) under re.IGNORECASE, with the value of .lower()
LevelOf ==
    [red |-> "red", orange |-> "orange", green |-> "green", RED |-> "red",
     Green |-> "green"]

\* (red|orange|green), case-sensitive
ExactLevels == {"red", "orange", "green"}

\* \s*: the first index from j on that holds no white space
RECURSIVE SkipSpace(_, _)
SkipSpace(r, j) ==
    IF j <= Len(r) /\ r[j] \in WhiteSpace THEN SkipSpace(r, j + 1) ELSE j

\* re.search(severity_pattern, report, re.IGNORECASE) matches at i (lines 616-617)
SearchMatchesAt(r, i) ==
    /\ r[i] \in MarkerKeys
    /\ LET j == SkipSpace(r, i + 1)
       IN  j <= Len(r) /\ r[j] \in DOMAIN LevelOf

\* re.sub pattern of line 621 matches at i: "\nSEVERITY_LEVEL:\s*(red|orange|green)"
SubMatchesAt(r, i) ==
    /\ r[i] = "NL"
    /\ i + 1 <= Len(r)
    /\ r[i + 1] = "SEVERITY_LEVEL:"
    /\ LET j == SkipSpace(r, i + 2)
       IN  j <= Len(r) /\ r[j] \in ExactLevels

\* re.sub(r"\nSEVERITY_LEVEL:\s*(red|orange|green)\s*", "", report), from index i on
RECURSIVE StripMarkers(_, _)
StripMarkers(r, i) ==
    IF i > Len(r) THEN <<>>
    ELSE IF SubMatchesAt(r, i)
         THEN StripMarkers(r, SkipSpace(r, SkipSpace(r, i + 2) + 1))
         ELSE <<r[i]>> \o StripMarkers(r, i + 1)

\* variant of ParseSeverity whose default is orange
ParseSeverityDefaultOrange(r) ==
    LET hits == {i \in DOMAIN r : SearchMatchesAt(r, i)}
    IN  IF hits = {}
        THEN [severity_level |-> "orange", report |-> r]
        ELSE LET i == CHOOSE k \in hits : \A m \in hits : k <= m
             IN  [severity_level |-> LevelOf[r[SkipSpace(r, i + 1)]],
                  report |-> StripMarkers(r, 1)]

\* lines 615-621: the severity parsed from the report and the report returned
ParseSeverity(r) ==
    LET hits == {i \in DOMAIN r : SearchMatchesAt(r, i)}
    IN  IF hits = {}
        THEN [severity_level |-> "green", report |-> r]
        ELSE LET i == CHOOSE k \in hits : \A m \in hits : k <= m
             IN  [severity_level |-> LevelOf[r[SkipSpace(r, i + 1)]],
                  report |-> StripMarkers(r, 1)]

\* variant of PainOverride with > in place of >= at the upper threshold
PainOverrideStrict(data, severity_level) ==
    IF "pain_intensity" \notin DOMAIN data THEN severity_level
    ELSE IF data.pain_intensity.t \notin {"number", "numeric_string"} THEN severity_level
    ELSE LET pain_level == data.pain_intensity.v
         IN  IF pain_level > 70 THEN "red"
             ELSE IF pain_level >= 40 THEN "orange"
             ELSE "green"

\* lines 625-635: the override by analysis_data["pain_intensity"], in tenths
PainOverride(data, severity_level) ==
    IF "pain_intensity" \notin DOMAIN data THEN severity_level
    ELSE IF data.pain_intensity.t \notin {"number", "numeric_string"} THEN severity_level
    ELSE LET pain_level == data.pain_intensity.v
         IN  IF pain_level >= 70 THEN "red"
             ELSE IF pain_level >= 40 THEN "orange"
             ELSE "green"

\* lines 614-641: what is returned when generate_chat has answered
DelegatedReport(data, r) ==
    LET parsed == ParseSeverity(r)
    IN  [content |-> parsed.report,
         severity_level |-> PainOverride(data, parsed.severity_level)]

RECURSIVE Bullets(_)
Bullets(items) ==
    IF items = <<>> THEN <<>> ELSE <<"-", Head(items), "NL">> \o Bullets(Tail(items))

RECURSIVE DiseaseLines(_)
DiseaseLines(ds) ==
    IF ds = <<>> THEN <<>>
    ELSE <<"-", Head(ds).name, ToString(Head(ds).probability), "NL">> \o DiseaseLines(Tail(ds))

\* fallback_generate_report (lines 654-709): the fixed template
fallback_generate_report(data) ==
    <<"# report", "NL", "## user", "NL", "## symptoms", "NL">> \o Bullets(data.symptoms)
    \o <<"## diseases", "NL">> \o DiseaseLines(data.diseases_with_probabilities)
    \o <<"## advice", "NL">> \o Bullets(data.suggestions)
    \o <<"disclaimer", "NL", "generated_at", "NL">>

\* variant of FallbackReportResult that applies the pain override to the template
FallbackReportResultWithOverride(data) ==
    [content |-> fallback_generate_report(data),
     severity_level |-> PainOverride(data, "green")]

\* lines 643-650: the except branch
FallbackReportResult(data) ==
    [content |-> fallback_generate_report(data), severity_level |-> "green"]

analysisVars ==
    <<hashSeed, general_suggestions, messages, diseases, pc, text, llmCalls, fallbackRuns,
      delegated, rawReply, readMessages, result, raised, prevRun, lastRun, restarts>>

\* lines 516-612: build the service and the prompt and send it, or fail building
\* the service and return the template (lines 643-650)
ReportStart ==
    /\ rpc = "idle"
    /\ \/ /\ rpc' = "await"
          /\ UNCHANGED <<reportPath, report>>
       \/ /\ rpc' = "done"
          /\ reportPath' = "fallback"
          /\ report' = FallbackReportResult(analysis_data)
    /\ UNCHANGED <<analysis_data, narrative>>
    /\ UNCHANGED analysisVars
    /\ UNCHANGED lookup
    /\ UNCHANGED handlerVars

\* line 612 raises
GenerateChatRaises ==
    /\ rpc = "await"
    /\ rpc' = "done"
    /\ reportPath' = "fallback"
    /\ report' = FallbackReportResult(analysis_data)
    /\ UNCHANGED <<analysis_data, narrative>>
    /\ UNCHANGED analysisVars
    /\ UNCHANGED lookup
    /\ UNCHANGED handlerVars

\* variant of GenerateChatReturns in which a pain_intensity that float() rejects
\* reaches the outer except branch
GenerateChatReturnsPainRaises(r) ==
    /\ rpc = "await"
    /\ narrative' = r
    /\ rpc' = "done"
    /\ IF "pain_intensity" \in DOMAIN analysis_data
          /\ analysis_data.pain_intensity.t \notin {"number", "numeric_string"}
       THEN reportPath' = "fallback" /\ report' = FallbackReportResult(analysis_data)
       ELSE reportPath' = "delegated" /\ report' = DelegatedReport(analysis_data, r)
    /\ UNCHANGED analysis_data
    /\ UNCHANGED analysisVars
    /\ UNCHANGED lookup
    /\ UNCHANGED handlerVars

\* line 612 returns r and lines 614-641 run
GenerateChatReturns(r) ==
    /\ rpc = "await"
    /\ narrative' = r
    /\ rpc' = "done"
    /\ reportPath' = "delegated"
    /\ report' = DelegatedReport(analysis_data, r)
    /\ UNCHANGED analysis_data
    /\ UNCHANGED analysisVars
    /\ UNCHANGED lookup
    /\ UNCHANGED handlerVars

\* reports the narrative collaborator can return
Narratives ==
    LET pre == {<<>>, <<"txt">>, <<"txt", "NL">>}
        seps == {<<>>, <<"SP">>, <<"NL">>}
        levels == {"red", "orange", "green", "RED", "txt"}
        marks == {<<>>} \cup {<<k>> \o sep \o <<c>> : k \in MarkerKeys, sep \in seps, c \in levels}
        post == {<<>>, <<"NL", "txt">>, <<"SP", "NL">>}
    IN  {a \o m \o z : a \in pre, m \in marks, z \in post} \cup
        {<<"txt", "NL", "SEVERITY_LEVEL:", "SP", "green", "NL", "SEVERITY_LEVEL:", "SP", "red">>}

\* values of analysis_data["pain_intensity"], numbers in tenths
PainOptions ==
    {[t |-> "number", v |-> p] : p \in {-10, 0, 39, 40, 69, 70, 80, 100}} \cup
    {[t |-> "numeric_string", v |-> 80], [t |-> "text", v |-> 0], [t |-> "null", v |-> 0]}

\* analysis results handed to the report
AnalysisResults ==
    { EmptyResult(GeneralSuggestionsInit),
      [symptoms |-> <<"dutong">>,
       diseases_with_probabilities |-> <<[id |-> 1, name |-> "pyeondutong", probability |-> 500]>>,
       suggestions |-> <<"sg_enough_sleep", "sg_manage_stress", "sg_regular_exercise">>] }

AnalysisInputs ==
    AnalysisResults \cup
    { [symptoms |-> a.symptoms, diseases_with_probabilities |-> a.diseases_with_probabilities,
       suggestions |-> a.suggestions, pain_intensity |-> p] :
          a \in AnalysisResults, p \in PainOptions }

InitReport ==
    /\ rpc = "idle"
    /\ narrative = <<>>
    /\ reportPath = "none"
    /\ report = [content |-> <<>>, severity_level |-> "none"]

\* the requests that find or create a Disease row: an analysis on the event loop
\* (ai_assistant.py lines 470-483) and the create_disease handler, which the
\* server runs on a worker thread (main.py lines 896-921)
Requests == {"analysis", "create_disease"}

NotStarted == [at |-> "start", name |-> "", existing |-> 0, id |-> 0]

\* message POSTs on the conversation
MaxPosts == 3

\* the create_conversation request is invocation 0; POST p is invocation p
Creation == 0

PostIds == 0..MaxPosts

\* no invocation is inside the analysis or the report call
NoPost == -1

\* request_report of a request body (models.py lines 162-164, 194-195): None, the
\* empty dict, or a dict with a symptom and a pain_intensity
NoRequestReport == [kind |-> "none", pain_intensity |-> 0, symptom |-> <<>>]

\* an invocation that has not arrived
NewPost == [at |-> "new", next_sequence |-> 0, request_report |-> NoRequestReport]

InitCommon ==
    /\ hashSeed \in Seeds
    /\ general_suggestions = GeneralSuggestionsInit
    /\ diseases = <<>>
    /\ pc = "idle"
    /\ llmCalls = 0
    /\ fallbackRuns = 0
    /\ delegated = "none"
    /\ rawReply = NoReply
    /\ readMessages = <<>>
    /\ result = NoResult
    /\ raised = FALSE
    /\ prevRun = NoRun
    /\ lastRun = NoRun
    /\ restarts = 0
    /\ lookup = [q \in Requests |-> NotStarted]
    /\ posts = [p \in PostIds |-> NewPost]
    /\ reports = <<>>
    /\ commits = 0
    /\ analyst = NoPost

Init ==
    /\ InitCommon
    /\ InitReport
    /\ messages = <<>>
    /\ text = <<>>
    /\ analysis_data = NoResult

Next ==
    \/ AnalyzeStart
    \/ AnalyzeTextRaises
    \/ \E raw \in RawResponses : AnalyzeTextReturns(raw)
    \/ LocalFallback
    \/ \E c \in UserContents : AddMessage("user", c)
    \/ \E c \in AssistantContents : AddMessage("ai assistant", c)
    \/ create_disease("gamgi")

Spec == Init /\ [][Next]_vars

(***************************************************************************)
(* The local pipeline called on its own, on every text of up to MaxWords   *)
(* words.                                                                  *)
(***************************************************************************)
InitFallback ==
    /\ InitCommon
    /\ InitReport
    /\ messages = <<>>
    /\ text \in Texts(MaxWords)
    /\ analysis_data = NoResult

NextFallback == FallbackCall

SpecFallback == InitFallback /\ [][NextFallback]_vars

(***************************************************************************)
(* Repeated runs of the local pipeline on one text, across restarts.       *)
(***************************************************************************)
InitRerun ==
    /\ InitCommon
    /\ InitReport
    /\ messages = <<>>
    /\ text \in UserContents \cup Phrases
    /\ analysis_data = NoResult

NextRerun ==
    \/ FallbackCall
    \/ CallReturns
    \/ ProcessStart

SpecRerun == InitRerun /\ [][NextRerun]_vars

(***************************************************************************)
(* generate_conversation_report on its own.                                *)
(***************************************************************************)
InitReportCall ==
    /\ InitCommon
    /\ InitReport
    /\ messages = <<>>
    /\ text = <<>>
    /\ analysis_data \in AnalysisInputs

NextReport ==
    \/ ReportStart
    \/ GenerateChatRaises
    \/ \E r \in Narratives : GenerateChatReturns(r)

SpecReport == InitReportCall /\ [][NextReport]_vars

(***************************************************************************)
(* Find-or-create of a Disease row by two requests at once.  The select    *)
(* and the commit of a request are separate statements on the database;    *)
(* the statements of the other request can fall between them.              *)
(***************************************************************************)
RaceNames == {"gamgi", "dokgam", "pyeondutong"}

\* session.exec(select(Disease).where(Disease.name == name)).first()
SelectExisting(q, name) ==
    /\ lookup[q].at = "start"
    /\ lookup' = [lookup EXCEPT ![q] = [at |-> "selected", name |-> name,
                                        existing |-> SelectDisease(diseases, name),
                                        id |-> 0]]
    /\ UNCHANGED <<hashSeed, general_suggestions, messages, diseases, pc, text, llmCalls,
                   fallbackRuns, delegated, rawReply, readMessages, result, raised,
                   prevRun, lastRun, restarts>>
    /\ UNCHANGED reportVars
    /\ UNCHANGED handlerVars

\* if the select found no row: session.add(db_disease); session.commit();
\* session.refresh(db_disease).  The request ends holding a row.
AddAndCommit(q) ==
    /\ lookup[q].at = "selected"
    /\ IF lookup[q].existing = 0
       THEN /\ diseases' = InsertDisease(diseases, lookup[q].name)
            /\ lookup' = [lookup EXCEPT ![q].at = "done",
                                        ![q].id = Len(diseases')]
       ELSE /\ UNCHANGED diseases
            /\ lookup' = [lookup EXCEPT ![q].at = "done", ![q].id = lookup[q].existing]
    /\ UNCHANGED <<hashSeed, general_suggestions, messages, pc, text, llmCalls,
                   fallbackRuns, delegated, rawReply, readMessages, result, raised,
                   prevRun, lastRun, restarts>>
    /\ UNCHANGED reportVars
    /\ UNCHANGED handlerVars

InitRace ==
    /\ InitCommon
    /\ InitReport
    /\ messages = <<>>
    /\ text = <<>>
    /\ analysis_data = NoResult

NextRace ==
    \/ \E q \in Requests, name \in RaceNames : SelectExisting(q, name)
    \/ \E q \in Requests : AddAndCommit(q)

SpecRace == InitRace /\ [][NextRace]_vars

(***************************************************************************)
(* Analyses and create_disease requests one after another: each request    *)
(* runs its find-or-create to the end before the next one touches the      *)
(* table.                                                                  *)
(***************************************************************************)
\* conversations with one message of the user
Conversations == {<<[sender |-> "user", content |-> c]>> : c \in UserContents}

\* replies that differ in possible_diseases
SequenceReplies ==
    { [kind |-> "malformed"] } \cup
    { [kind |-> "object",
       value |-> JsonObject([present |-> FALSE, v |-> <<>>], pd,
                            [present |-> FALSE, v |-> <<>>])] : pd \in DiseaseOptions }

CreateNames == {"gamgi", "dangnyo"}

\* the handler has its analysis; a later request analyses a conversation
\* (main.py lines 445, 736)
NextAnalysis ==
    /\ pc = "done"
    /\ pc' = "idle"
    /\ messages' \in Conversations
    /\ llmCalls' = 0
    /\ fallbackRuns' = 0
    /\ delegated' = "none"
    /\ rawReply' = NoReply
    /\ readMessages' = <<>>
    /\ result' = NoResult
    /\ text' = <<>>
    /\ prevRun' = NoRun
    /\ lastRun' = NoRun
    /\ UNCHANGED <<hashSeed, general_suggestions, diseases, raised, restarts>>
    /\ UNCHANGED reportVars
    /\ UNCHANGED lookup
    /\ UNCHANGED handlerVars

InitSequence ==
    /\ InitCommon
    /\ InitReport
    /\ messages \in Conversations
    /\ text = <<>>
    /\ analysis_data = NoResult

NextSequence ==
    \/ AnalyzeStart
    \/ AnalyzeTextRaises
    \/ \E raw \in SequenceReplies : AnalyzeTextReturns(raw)
    \/ LocalFallback
    \/ \E name \in CreateNames : create_disease(name)
    \/ NextAnalysis

SpecSequence == InitSequence /\ [][NextSequence]_vars

(***************************************************************************)
(* The conversation handlers of main.py: create_conversation (lines        *)
(* 356-590) and create_conversation_message (lines 640-803).  A handler    *)
(* runs on the event loop and gives it up at each await: the AI-response   *)
(* call, and the calls inside the analysis and the report.  One analysis   *)
(* and report runs at a time here; the user message of another POST can    *)
(* be stored while it is suspended.                                        *)
(***************************************************************************)
\* bool(request_report): a dict with at least one key
Truthy(rr) == rr.kind = "dict"

\* lines 391-406 / 686-703: the lines built from the keys of request_report
SymptomText(rr) ==
    (IF rr.pain_intensity # 0
     THEN <<"pain:", "SP", ToString(rr.pain_intensity), "NL">> ELSE <<>>) \o
    (IF rr.symptom # <<>> THEN <<"symptom:", "SP">> \o rr.symptom \o <<"NL">> ELSE <<>>)

\* lines 409 / 706: the content of the user message of a report request
RequestContent(rr) == <<"analyse:", "NL">> \o SymptomText(rr)

\* lines 673-682: one more than the highest sequence of the conversation
next_sequence(msgs) ==
    IF msgs = <<>> THEN 1
    ELSE (CHOOSE n \in {msgs[i].sequence : i \in DOMAIN msgs} :
              \A i \in DOMAIN msgs : msgs[i].sequence <= n) + 1

\* variant of generate_report without the automatic trigger
generate_report_on_request_only(rr, seq) == rr.kind # "none"

\* variant of generate_report that tests the sequence of the user message
generate_report_on_user_seven(rr, seq) == rr.kind # "none" \/ seq = 7

\* line 730
generate_report(rr, seq) == rr.kind # "none" \/ seq + 1 = 7

\* a ConversationMessage row
Row(sender, content, sequence, p, commit) ==
    [sender |-> sender, content |-> content, sequence |-> sequence, post |-> p,
     commit |-> commit]

\* the locals of the analysis and of the report call go away with the call
CallLocalsReset ==
    /\ pc' = "idle"
    /\ text' = <<>>
    /\ llmCalls' = 0
    /\ fallbackRuns' = 0
    /\ delegated' = "none"
    /\ rawReply' = NoReply
    /\ readMessages' = <<>>
    /\ result' = NoResult
    /\ prevRun' = NoRun
    /\ lastRun' = NoRun
    /\ rpc' = "idle"
    /\ analysis_data' = NoResult
    /\ narrative' = <<>>
    /\ reportPath' = "none"
    /\ report' = [content |-> <<>>, severity_level |-> "none"]

\* create_conversation up to its analysis (lines 373-442, 498-590): the
\* conversation row, then the first rows of the three branches
create_conversation(rr, message_content) ==
    /\ posts[Creation].at = "new"
    /\ IF Truthy(rr)
       THEN /\ messages' = <<Row("user", RequestContent(rr), 1, Creation, commits + 2),
                             Row("ai assistant", <<"reply">>, 2, Creation, commits + 3)>>
            /\ commits' = commits + 3
            /\ posts' = [posts EXCEPT ![Creation] =
                            [at |-> "analysis", next_sequence |-> 1, request_report |-> rr]]
            /\ analyst' = Creation
       ELSE IF message_content # <<>>
       THEN /\ messages' = <<Row("user", message_content, 1, Creation, commits + 2),
                             Row("ai assistant", <<"reply">>, 2, Creation, commits + 3)>>
            /\ commits' = commits + 4
            /\ posts' = [posts EXCEPT ![Creation] =
                            [at |-> "returned", next_sequence |-> 1, request_report |-> rr]]
            /\ UNCHANGED analyst
       ELSE /\ messages' = <<Row("ai assistant", <<"greeting">>, 1, Creation, commits + 2)>>
            /\ commits' = commits + 3
            /\ posts' = [posts EXCEPT ![Creation] =
                            [at |-> "returned", next_sequence |-> 1, request_report |-> rr]]
            /\ UNCHANGED analyst
    /\ UNCHANGED <<hashSeed, general_suggestions, diseases, pc, text, llmCalls,
                   fallbackRuns, delegated, rawReply, readMessages, result, raised,
                   prevRun, lastRun, restarts, reports>>
    /\ UNCHANGED reportVars
    /\ UNCHANGED lookup

\* create_conversation_message up to its first await (lines 659-720): the
\* sequence number is read, the content is rewritten for a report request, the
\* user message is committed and the AI response is requested
PostStart(p, rr, content) ==
    /\ p # Creation
    /\ posts[p].at = "new"
    /\ posts[Creation].at = "returned"
    /\ \A q \in 1..(p - 1) : posts[q].at # "new"
    /\ messages' = Append(messages,
                       Row("user", IF Truthy(rr) THEN RequestContent(rr) ELSE content,
                           next_sequence(messages), p, commits + 1))
    /\ commits' = commits + 1
    /\ posts' = [posts EXCEPT ![p] = [at |-> "await_ai",
                                      next_sequence |-> next_sequence(messages),
                                      request_report |-> rr]]
    /\ UNCHANGED <<hashSeed, general_suggestions, diseases, pc, text, llmCalls,
                   fallbackRuns, delegated, rawReply, readMessages, result, raised,
                   prevRun, lastRun, restarts, reports, analyst>>
    /\ UNCHANGED reportVars
    /\ UNCHANGED lookup

\* lines 720-736, 787-796: the AI response is there; without a report the reply
\* is committed and the handler returns, otherwise the analysis is called
AiResponds(p) ==
    /\ p # Creation
    /\ posts[p].at = "await_ai"
    /\ IF generate_report(posts[p].request_report, posts[p].next_sequence)
       THEN /\ analyst = NoPost
            /\ analyst' = p
            /\ posts' = [posts EXCEPT ![p].at = "analysis"]
            /\ UNCHANGED <<messages, commits>>
       ELSE /\ messages' = Append(messages,
                               Row("ai assistant", <<"reply">>, posts[p].next_sequence + 1,
                                   p, commits + 1))
            /\ commits' = commits + 1
            /\ posts' = [posts EXCEPT ![p].at = "returned"]
            /\ UNCHANGED analyst
    /\ UNCHANGED <<hashSeed, general_suggestions, diseases, pc, text, llmCalls,
                   fallbackRuns, delegated, rawReply, readMessages, result, raised,
                   prevRun, lastRun, restarts, reports>>
    /\ UNCHANGED reportVars
    /\ UNCHANGED lookup

\* variant of CallReport that copies the request's pain_intensity into analysis_data
CallReportWithPain(p) ==
    /\ analyst = p
    /\ posts[p].at = "analysis"
    /\ pc = "done"
    /\ analysis_data' =
           IF posts[p].request_report.pain_intensity # 0
           THEN [symptoms |-> result.symptoms,
                 diseases_with_probabilities |-> result.diseases_with_probabilities,
                 suggestions |-> result.suggestions,
                 pain_intensity |->
                     [t |-> "number", v |-> 10 * posts[p].request_report.pain_intensity]]
           ELSE result
    /\ posts' = [posts EXCEPT ![p].at = "report"]
    /\ UNCHANGED <<rpc, narrative, reportPath, report>>
    /\ UNCHANGED analysisVars
    /\ UNCHANGED lookup
    /\ UNCHANGED <<reports, commits, analyst>>

\* lines 445-446 / 736-739: the analysis has returned and its value is the
\* analysis_data argument of generate_conversation_report
CallReport(p) ==
    /\ analyst = p
    /\ posts[p].at = "analysis"
    /\ pc = "done"
    /\ analysis_data' = result
    /\ posts' = [posts EXCEPT ![p].at = "report"]
    /\ UNCHANGED <<rpc, narrative, reportPath, report>>
    /\ UNCHANGED analysisVars
    /\ UNCHANGED lookup
    /\ UNCHANGED <<reports, commits, analyst>>

\* lines 448-476 / 740-796: the report row is committed with the severity_level
\* of the report call; a message POST then commits its AI reply; the handler returns
StoreReport(p) ==
    /\ analyst = p
    /\ posts[p].at = "report"
    /\ rpc = "done"
    /\ reports' = Append(reports, [post |-> p, severity_level |-> report.severity_level,
                                   commit |-> commits + 1])
    /\ IF p = Creation
       THEN /\ commits' = commits + 2
            /\ UNCHANGED messages
       ELSE /\ messages' = Append(messages,
                               Row("ai assistant", <<"reply", "NL", "NL", "report_notice">>,
                                   posts[p].next_sequence + 1, p, commits + 2))
            /\ commits' = commits + 2
    /\ posts' = [posts EXCEPT ![p].at = "returned"]
    /\ analyst' = NoPost
    /\ CallLocalsReset
    /\ UNCHANGED <<hashSeed, general_suggestions, diseases, raised, restarts>>
    /\ UNCHANGED lookup

\* request bodies
RequestReports ==
    { NoRequestReport,
      [kind |-> "empty", pain_intensity |-> 0, symptom |-> <<>>],
      [kind |-> "dict", pain_intensity |-> 8, symptom |-> <<"du", "tong">>] }

MessageContents == { <<"du", "tong", "i", "SP", "sim", "hae", "yo">> }

\* answers of the collaborators during a handler
HandlerReplies ==
    { [kind |-> "object",
       value |-> JsonObject([present |-> TRUE, v |-> <<"dutong">>],
                            [present |-> TRUE, v |-> <<Entry("pyeondutong", 700)>>],
                            [present |-> TRUE, v |-> <<"llm_a", "g_drink_water">>])] }

HandlerNarratives ==
    { <<"txt">>, <<"txt", "NL", "SEVERITY_LEVEL:", "SP", "red">> }

\* the calls of the invocation that holds the analysis or the report
InAnalysis == analyst # NoPost /\ posts[analyst].at = "analysis"

InReport == analyst # NoPost /\ posts[analyst].at = "report"

CallSteps ==
    \/ InAnalysis /\ AnalyzeStart
    \/ InAnalysis /\ AnalyzeTextRaises
    \/ InAnalysis /\ \E raw \in HandlerReplies : AnalyzeTextReturns(raw)
    \/ InAnalysis /\ LocalFallback
    \/ InReport /\ ReportStart
    \/ InReport /\ GenerateChatRaises
    \/ InReport /\ \E r \in HandlerNarratives : GenerateChatReturns(r)
    \/ \E p \in PostIds : CallReport(p)
    \/ \E p \in PostIds : StoreReport(p)

\* every other invocation has returned or has not arrived
Quiet(p) == \A q \in PostIds \ {p} : posts[q].at \in {"new", "returned"}

InitHandlers ==
    /\ InitCommon
    /\ hashSeed = 1
    /\ InitReport
    /\ messages = <<>>
    /\ text = <<>>
    /\ analysis_data = NoResult

\* requests one after another: a POST arrives when the one before has returned
NextHandlers ==
    \/ \E rr \in RequestReports, c \in MessageContents \cup {<<>>} : create_conversation(rr, c)
    \/ \E p \in PostIds, rr \in RequestReports, c \in MessageContents :
           Quiet(p) /\ PostStart(p, rr, c)
    \/ \E p \in PostIds : AiResponds(p)
    \/ CallSteps

SpecHandlers == InitHandlers /\ [][NextHandlers]_vars

\* POSTs that are in flight together
RacingPosts == 2

RacingReports ==
    { NoRequestReport,
      [kind |-> "dict", pain_intensity |-> 8, symptom |-> <<"du", "tong">>] }

NextRacing ==
    \/ \E rr \in RacingReports, c \in MessageContents \cup {<<>>} : create_conversation(rr, c)
    \/ \E p \in 1..RacingPosts, rr \in RacingReports, c \in MessageContents :
           PostStart(p, rr, c)
    \/ \E p \in 1..RacingPosts : AiResponds(p)
    \/ CallSteps

SpecRacing == InitHandlers /\ [][NextRacing]_vars

(***************************************************************************)
(* Properties.                                                             *)
(***************************************************************************)
\* the user-authored contents of the rows, each followed by a line feed
RECURSIVE JoinLines(_)
JoinLines(contents) ==
    IF contents = <<>> THEN <<>>
    ELSE Head(contents) \o <<"NL">> \o JoinLines(Tail(contents))

IsUserMessage(m) == m.sender = "user"

UserAuthoredText(msgs) ==
    LET mine == SelectSeq(msgs, IsUserMessage)
    IN  JoinLines([i \in DOMAIN mine |-> mine[i].content])

Distinct(s) == \A i, j \in DOMAIN s : i # j => s[i] # s[j]

\* the severity the pain thresholds prescribe, pain in tenths
ThresholdSeverity(p) == IF p >= 70 THEN "red" ELSE IF p >= 40 THEN "orange" ELSE "green"

HasNumericPain(data) ==
    "pain_intensity" \in DOMAIN data /\ data.pain_intensity.t = "number"

\* C1: when the delegated path of a call on a conversation with messages has
\* failed, the call ends without an exception and returns what
\* fallback_analyze_conversation returns for the user-authored text and the rows
\* stored when the fallback began.
C1_FailureReturnsFallback ==
    (pc = "done" /\ delegated = "failure") =>
        /\ ~raised
        /\ readMessages # <<>>
        /\ lastRun.valid
        /\ result = fallback_analyze_conversation(UserAuthoredText(readMessages),
                        lastRun.before, hashSeed, general_suggestions).result

\* C1 witness: analyze_text raised on a text with a symptom keyword, and the call
\* returned the findings of the local pipeline
C1_Witness ==
    /\ pc = "done"
    /\ delegated = "failure"
    /\ llmCalls = 1
    /\ rawReply = NoReply
    /\ result.symptoms # <<>>

\* C2: a reply that is not parseable JSON counts as a failed delegated attempt,
\* and the call returns the local pipeline's result.
C2_MalformedReplyIsFailure ==
    (pc = "done" /\ rawReply.kind = "malformed") =>
        /\ delegated = "failure"
        /\ fallbackRuns = 1
        /\ result = lastRun.result

\* one step of a call: the counters stay at most 1, a request is sent only on
\* idle -> await, the fallback runs only on failure -> done
C3_Step ==
    /\ llmCalls' <= 1
    /\ fallbackRuns' <= 1
    /\ (llmCalls' # llmCalls) => (pc = "idle" /\ pc' = "await")
    /\ (fallbackRuns' # fallbackRuns) =>
           (pc = "failure" /\ delegated = "failure" /\ pc' = "done")
    /\ <<pc, pc'>> \in { <<"idle", "idle">>, <<"idle", "await">>, <<"idle", "failure">>,
                         <<"idle", "done">>, <<"await", "await">>, <<"await", "done">>,
                         <<"await", "failure">>, <<"failure", "done">>, <<"done", "done">> }

\* C3: in one call analyze_text is invoked at most once, the local fallback runs
\* at most once and only from the failure of the delegated attempt, and the call
\* moves along idle -> await -> (done | failure -> done), or from idle straight
\* to failure (the service cannot be built) or to done (no messages).
C3_OneAttemptOneFallback == [][C3_Step]_vars

\* C3 witness: a call that asked the collaborator once, failed and fell back once
C3_Witness ==
    /\ pc = "done"
    /\ llmCalls = 1
    /\ fallbackRuns = 1
    /\ delegated = "failure"

\* C4: every probability of the local pipeline lies in [50.0, 95.0], and in
\* [80.0, 95.0] for a disease whose name occurs in the text.
C4_ProbabilityBounds ==
    pc = "done" =>
        \A i \in DOMAIN result.diseases_with_probabilities :
            LET e == result.diseases_with_probabilities[i]
            IN  /\ 500 <= e.probability
                /\ e.probability <= 950
                /\ Contains(Lower(text), Spelling[e.name]) => e.probability >= 800

\* C4 witness: a run that returned a disease named in the text next to one that is
\* only inferred, strictly inside the bounds
C4_Witness ==
    /\ pc = "done"
    /\ \E i, j \in DOMAIN result.diseases_with_probabilities :
           /\ Contains(Lower(text), Spelling[result.diseases_with_probabilities[i].name])
           /\ ~Contains(Lower(text), Spelling[result.diseases_with_probabilities[j].name])
           /\ result.diseases_with_probabilities[j].probability \in 501..949

\* C5: every returned suggestions list has at most 5 entries, pairwise distinct.
C5_SuggestionsCappedAndDistinct ==
    pc = "done" => (Len(result.suggestions) <= 5 /\ Distinct(result.suggestions))

\* C6: when generate_chat has answered and analysis_data holds a numeric
\* pain_intensity, the severity is the one of the thresholds (>= 7 red, >= 4
\* orange, else green), whatever marker the narrative holds.
C6_PainOverridesMarker ==
    (rpc = "done" /\ reportPath = "delegated" /\ HasNumericPain(analysis_data)) =>
        report.severity_level = ThresholdSeverity(analysis_data.pain_intensity.v)

\* C6 witness: the narrative carries a green marker, the pain is 8, the severity red
C6_Witness ==
    /\ rpc = "done"
    /\ reportPath = "delegated"
    /\ HasNumericPain(analysis_data)
    /\ analysis_data.pain_intensity.v = 80
    /\ \E i \in DOMAIN narrative :
           /\ narrative[i] = "SEVERITY_LEVEL:"
           /\ i < Len(narrative)
           /\ narrative[i + 1] = "green"
    /\ report.severity_level = "red"

\* C7: a numeric pain_intensity decides the severity also when the narrative call
\* failed and the local template was used.
C7_PainOverridesInFallback ==
    (rpc = "done" /\ reportPath = "fallback" /\ HasNumericPain(analysis_data)) =>
        report.severity_level = ThresholdSeverity(analysis_data.pain_intensity.v)

\* C8: a conversation without user-authored messages always yields no symptoms,
\* no diseases and the first 5 general suggestions.
C8_NoUserMessagesEmptyResult ==
    (pc = "done" /\ SelectSeq(readMessages, IsUserMessage) = <<>>) =>
        result = [symptoms |-> <<>>, diseases_with_probabilities |-> <<>>,
                  suggestions |-> Take(general_suggestions, 5)]

\* the step that begins a call on a conversation without messages
C9_Step ==
    (pc = "idle" /\ pc' # "idle" /\ messages = <<>>) =>
        /\ pc' = "done"
        /\ result' = [symptoms |-> <<>>, diseases_with_probabilities |-> <<>>,
                      suggestions |-> general_suggestions]
        /\ ~raised'
        /\ llmCalls' = 0
        /\ fallbackRuns' = 0
        /\ diseases' = diseases

\* C9: a call that finds no messages returns at once: no symptoms, no diseases,
\* the general suggestions, no exception, no request to the collaborator and no
\* change of the diseases table.
C9_NoMessagesReturnsAtOnce == [][C9_Step]_vars

\* C9 witness: a finished call that read an empty conversation
C9_Witness ==
    /\ pc = "done"
    /\ readMessages = <<>>
    /\ result.suggestions = general_suggestions

\* C10: two runs of the local pipeline on the same text with the same stored
\* diseases return the same output.
C10_SameInputSameOutput ==
    (prevRun.valid /\ lastRun.valid /\ prevRun.text = lastRun.text
        /\ prevRun.before = lastRun.before) =>
        prevRun.result = lastRun.result

\* a report holds a marker line that severity_pattern matches
HasMarker(r) == \E i \in DOMAIN r : SearchMatchesAt(r, i)

HasPain(data) == "pain_intensity" \in DOMAIN data

\* C11: whenever a severity marker was parsed from the narrative, in whatever
\* letter case and on whatever line, the returned content holds no marker line.
C11_ParsedMarkerIsStripped ==
    (rpc = "done" /\ reportPath = "delegated" /\ HasMarker(narrative)) =>
        ~HasMarker(report.content)

\* C12: a narrative without a parseable marker, with no pain_intensity in
\* analysis_data, is returned unchanged with severity green.
C12_NoMarkerDefaultsGreen ==
    (rpc = "done" /\ reportPath = "delegated" /\ ~HasMarker(narrative)
        /\ ~HasPain(analysis_data)) =>
        report = [content |-> narrative, severity_level |-> "green"]

\* C12 witness: the narrative names the key with a level that is none of the three
C12_Witness ==
    /\ rpc = "done"
    /\ reportPath = "delegated"
    /\ ~HasPain(analysis_data)
    /\ \E i \in DOMAIN narrative : narrative[i] \in MarkerKeys
    /\ ~HasMarker(narrative)
    /\ report = [content |-> narrative, severity_level |-> "green"]

\* a report call ends without an answer of generate_chat
C13_Step ==
    (rpc # "done" /\ rpc' = "done" /\ reportPath' # "delegated") =>
        /\ reportPath' = "fallback"
        /\ report' = [content |-> fallback_generate_report(analysis_data),
                      severity_level |-> "green"]

\* C13: when building the service or generate_chat fails, the call returns the
\* template of fallback_generate_report with severity green, whatever
\* analysis_data holds, and raises nothing.
C13_FailedNarrativeGivesGreenTemplate == [][C13_Step]_vars

\* C13 witness: the template was returned with green although the pain is 8
C13_Witness ==
    /\ rpc = "done"
    /\ reportPath = "fallback"
    /\ HasNumericPain(analysis_data)
    /\ analysis_data.pain_intensity.v = 80
    /\ analysis_data.symptoms # <<>>
    /\ report.severity_level = "green"
    /\ report.content = fallback_generate_report(analysis_data)

\* generate_chat answers while pain_intensity is text or null
C14_Step ==
    \A r \in Narratives :
        (GenerateChatReturns(r) /\ HasPain(analysis_data)
            /\ analysis_data.pain_intensity.t \in {"text", "null"}) =>
            /\ reportPath' = "delegated"
            /\ report'.content = ParseSeverity(r).report
            /\ report'.severity_level = ParseSeverity(r).severity_level

\* C14: a pain_intensity that is no number is ignored: the call returns the
\* narrative and the severity parsed from it (green when none), without an error.
C14_NonNumericPainIgnored == [][C14_Step]_vars

\* C14 witness: pain_intensity is text, the narrative's marker red is the severity
C14_Witness ==
    /\ rpc = "done"
    /\ reportPath = "delegated"
    /\ HasPain(analysis_data)
    /\ analysis_data.pain_intensity.t = "text"
    /\ HasMarker(narrative)
    /\ report.severity_level = "red"

\* the name of a knowledge-base disease occurs in the text
Names(d) == Contains(Lower(text), Lower(Spelling[d]))

\* the symptom keywords under which the knowledge base lists a disease
LinkedSymptoms(d) == {s \in DOMAIN symptom_disease_map : d \in Range(symptom_disease_map[s])}

\* C15: for every knowledge-base disease named in the text, the local pipeline
\* returns every symptom keyword linked to it, and returns the disease with a
\* probability in [80, 95].
C15_MentionedDiseaseBackfilled ==
    pc = "done" =>
        \A d \in all_diseases :
            Names(d) =>
                /\ LinkedSymptoms(d) \subseteq Range(result.symptoms)
                /\ \E i \in DOMAIN result.diseases_with_probabilities :
                       /\ result.diseases_with_probabilities[i].name = d
                       /\ result.diseases_with_probabilities[i].probability \in 800..950

\* C15 witness: the text names gamgi and holds no symptom keyword; the four
\* symptoms of gamgi are returned
C15_Witness ==
    /\ pc = "done"
    /\ Names("gamgi")
    /\ KeywordSymptoms(Lower(text)) = {}
    /\ Cardinality(LinkedSymptoms("gamgi")) = 4
    /\ Range(result.symptoms) = LinkedSymptoms("gamgi")

\* C16: for the text "dutong-i simhaeyo" the local pipeline returns the symptom
\* dutong and exactly pyeondutong, ginjangseong_dutong and gunbalseong_dutong,
\* each with probability 50.0.
C16_HeadacheExample ==
    (pc = "done" /\ text = <<"du", "tong", "i", "SP", "sim", "hae", "yo">>) =>
        /\ result.symptoms = <<"dutong">>
        /\ {[name |-> e.name, probability |-> e.probability] :
                e \in Range(result.diseases_with_probabilities)}
           = {[name |-> d, probability |-> 500] :
                d \in {"pyeondutong", "ginjangseong_dutong", "gunbalseong_dutong"}}
        /\ Len(result.diseases_with_probabilities) = 3

\* the text holds no symptom keyword and no disease name of the knowledge base
NothingKnown ==
    /\ \A k \in Range(common_symptoms) : ~Contains(Lower(text), Lower(Spelling[k]))
    /\ \A d \in all_diseases : ~Names(d)

\* C17: on a text without a known symptom keyword or disease name the local
\* pipeline returns no symptoms, no diseases and the general suggestions list,
\* raises nothing and adds no Disease row.
C17_NothingKnownEmptyResult ==
    (pc = "done" /\ NothingKnown) =>
        /\ result = [symptoms |-> <<>>, diseases_with_probabilities |-> <<>>,
                     suggestions |-> general_suggestions]
        /\ ~raised
        /\ lastRun.valid
        /\ diseases = lastRun.before

\* C17 witness: a greeting was analysed
C17_Witness ==
    /\ pc = "done"
    /\ text # <<>>
    /\ NothingKnown
    /\ fallbackRuns = 1
    /\ result.suggestions = general_suggestions

RowsNamed(name) == {i \in DOMAIN diseases : diseases[i].name = name}

\* both requests looked for the same name, and neither found a row
BothMissed ==
    /\ \A q \in Requests : lookup[q].at = "done" /\ lookup[q].existing = 0
    /\ lookup["analysis"].name = lookup["create_disease"].name

\* C18: when the find-or-create of two requests for one name overlap so that
\* both selects run before either commit, both requests insert: the table ends
\* with two rows of that name.
C18_BothInsertAfterBothMissed ==
    BothMissed => Cardinality(RowsNamed(lookup["analysis"].name)) = 2

\* C18 witness: the analysis and create_disease both missed gamgi and the table
\* holds two rows named gamgi
C18_Witness ==
    /\ BothMissed
    /\ lookup["analysis"].name = "gamgi"
    /\ Cardinality(RowsNamed("gamgi")) = 2
    /\ lookup["analysis"].id # lookup["create_disease"].id

\* C19: when analyses (either path, any reply) and create_disease requests run
\* one after another on a table that starts with unique names, no two Disease
\* rows share a name.
C19_NamesStayUnique ==
    \A i, j \in DOMAIN diseases : i # j => diseases[i].name # diseases[j].name

\* C19 witness: analyses of two conversations have ended; rows were created by
\* the local pipeline for each of them (pyeondutong, dokgam), by a delegated
\* reply (llm_disease) and by create_disease (dangnyo)
C19_Witness ==
    /\ pc = "done"
    /\ RowsNamed("pyeondutong") # {}
    /\ RowsNamed("dokgam") # {}
    /\ RowsNamed("llm_disease") # {}
    /\ RowsNamed("dangnyo") # {}
    /\ RowsNamed("gamgi") # {}

\* C20: every probability of a returned result lies in [0, 100].
C20_ProbabilityInRange ==
    pc = "done" =>
        \A i \in DOMAIN result.diseases_with_probabilities :
            result.diseases_with_probabilities[i].probability \in 0..1000

\* the reference count of a disease: the returned symptoms that the knowledge
\* base links to it, plus 3 when the text names it
MatchCount(d) ==
    Cardinality(LinkedSymptoms(d) \cap Range(result.symptoms)) + (IF Names(d) THEN 3 ELSE 0)

\* m / t * 100 rounded to one decimal, in tenths
RoundedShare(m, t) == (2000 * m + t) \div (2 * t)

\* the reference probability of a disease, in tenths
ReferenceProbability(d) ==
    IF Names(d)
    THEN IF 800 + (MatchCount(d) - 3) * 50 > 950 THEN 950
         ELSE 800 + (MatchCount(d) - 3) * 50
    ELSE LET share == RoundedShare(MatchCount(d), Cardinality(LinkedSymptoms(d)))
         IN  IF share < 500 THEN 500 ELSE IF share > 950 THEN 950 ELSE share

\* C21: every probability the local pipeline returns equals the reference
\* formula: min(95, 80 + (matchCount - 3) * 5) for a disease named in the text,
\* min(95, max(50, matchCount / total * 100)) otherwise, to one decimal.
C21_ProbabilityFormula ==
    pc = "done" =>
        \A i \in DOMAIN result.diseases_with_probabilities :
            result.diseases_with_probabilities[i].probability
                = ReferenceProbability(result.diseases_with_probabilities[i].name)

\* C21 witness: a named disease below the cap beside inferred ones at the cap
\* and at the floor
C21_Witness ==
    /\ pc = "done"
    /\ \E i, j, k \in DOMAIN result.diseases_with_probabilities :
           /\ Names(result.diseases_with_probabilities[i].name)
           /\ result.diseases_with_probabilities[i].probability \in 801..949
           /\ ~Names(result.diseases_with_probabilities[j].name)
           /\ result.diseases_with_probabilities[j].probability = 950
           /\ ~Names(result.diseases_with_probabilities[k].name)
           /\ result.diseases_with_probabilities[k].probability = 500

\* the suggestions the knowledge base holds for the first three returned diseases
TopThreeSuggestions ==
    UNION {Range(disease_suggestions[e.name]) :
             e \in {f \in Range(Take(result.diseases_with_probabilities, 3)) :
                      f.name \in DOMAIN disease_suggestions}}

\* C22: when the three top-ranked diseases have fewer than 5 distinct
\* suggestions of their own, all of them are returned and general suggestions
\* fill the list up to 5 entries.
C22_SpecificSuggestionsKept ==
    (pc = "done" /\ result.diseases_with_probabilities # <<>>
        /\ Cardinality(TopThreeSuggestions) < 5) =>
        /\ TopThreeSuggestions \subseteq Range(result.suggestions)
        /\ Len(result.suggestions) = 5

\* C23: a disease named in the text has a probability at least that of every
\* disease that is only inferred, and stands before it in the returned list.
C23_MentionedOutranksInferred ==
    pc = "done" =>
        \A i, j \in DOMAIN result.diseases_with_probabilities :
            (Names(result.diseases_with_probabilities[i].name)
                /\ ~Names(result.diseases_with_probabilities[j].name)) =>
                /\ result.diseases_with_probabilities[i].probability
                       >= result.diseases_with_probabilities[j].probability
                /\ i < j

\* C24: the returned diseases are ordered by probability, non-increasing, and
\* every returned suggestion is one of the first three returned diseases or a
\* general one; with 5 or more of their own, no general one is returned.
C24_RankedAndTopThree ==
    (pc = "done" /\ result.diseases_with_probabilities # <<>>) =>
        /\ \A i, j \in DOMAIN result.diseases_with_probabilities :
               i < j => result.diseases_with_probabilities[i].probability
                            >= result.diseases_with_probabilities[j].probability
        /\ Range(result.suggestions) \subseteq
               (TopThreeSuggestions \cup Range(general_suggestions))
        /\ Cardinality(TopThreeSuggestions) >= 5 =>
               Range(result.suggestions) \subseteq TopThreeSuggestions

\* C24 witness: more than three diseases of unequal probability were returned,
\* one beyond the third has suggestions of its own, and the first three have
\* at least 5
C24_Witness ==
    /\ pc = "done"
    /\ Len(result.diseases_with_probabilities) > 3
    /\ result.diseases_with_probabilities[1].probability
           > result.diseases_with_probabilities[Len(result.diseases_with_probabilities)].probability
    /\ \E i \in DOMAIN result.diseases_with_probabilities :
           i > 3 /\ result.diseases_with_probabilities[i].name \in DOMAIN disease_suggestions
    /\ Cardinality(TopThreeSuggestions) >= 5

\* C25: when the analysis has returned, by either path, every returned disease
\* carries the id of a stored row of its name, the name is not empty, and the
\* table holds exactly one row of that name.
C25_EntriesAreStoredRows ==
    pc = "done" =>
        \A i \in DOMAIN result.diseases_with_probabilities :
            LET e == result.diseases_with_probabilities[i]
            IN  /\ e.name # ""
                /\ e.id \in DOMAIN diseases
                /\ diseases[e.id] = [id |-> e.id, name |-> e.name]
                /\ Cardinality(RowsNamed(e.name)) = 1

\* C25 witness: a delegated success returned a disease the reply named, whose
\* row was created during the call
C25_Witness ==
    /\ pc = "done"
    /\ delegated = "success"
    /\ \E i \in DOMAIN result.diseases_with_probabilities :
           result.diseases_with_probabilities[i].name = "llm_disease"
    /\ RowsNamed("llm_disease") # {}

\* the symptoms under which symptom_disease_map lists a disease
SymptomsListing(d) ==
    {s \in Range(SymptomKeys) :
         \E k \in DOMAIN symptom_disease_map[s] : symptom_disease_map[s][k] = d}

\* disease_symptoms is the inverse of symptom_disease_map
InverseMaps ==
    /\ DOMAIN disease_symptoms = all_diseases
    /\ \A d \in all_diseases : Range(disease_symptoms[d]) = SymptomsListing(d)

\* C26: in every state reached by analysis and report calls, general_suggestions
\* has its load-time value, and disease_symptoms lists symptom s under disease d
\* exactly when symptom_disease_map lists d under s.
C26_KnowledgeBaseUnchanged ==
    /\ general_suggestions = GeneralSuggestionsInit
    /\ InverseMaps

\* C26 witness: two reports have been stored, so at least two analyses and two
\* report calls have run, and one more analysis has answered from the reply
C26_Witness ==
    /\ Len(reports) >= 2
    /\ pc = "done"
    /\ delegated = "success"
    /\ Len(result.suggestions) = 5

\* the rows a handler invocation has stored
RepliesOf(p) ==
    {j \in DOMAIN messages : messages[j].post = p /\ messages[j].sender = "ai assistant"}

ReportsOf(p) == {i \in DOMAIN reports : reports[i].post = p}

\* C27: a message POST stores one AI reply; it stores exactly one report when it
\* carries a request_report or its AI reply has sequence number 7 and none
\* otherwise, and the report is committed before the AI reply.
C27_ReportTrigger ==
    \A p \in 1..MaxPosts :
        /\ Cardinality(RepliesOf(p)) =
               (IF posts[p].at = "returned" THEN 1 ELSE 0)
        /\ RepliesOf(p) = {} => ReportsOf(p) = {}
        /\ \A j \in RepliesOf(p) :
               /\ Cardinality(ReportsOf(p)) =
                      (IF posts[p].request_report.kind # "none" \/ messages[j].sequence = 7
                       THEN 1 ELSE 0)
               /\ \A i \in ReportsOf(p) : reports[i].commit < messages[j].commit

\* C27 witness: a POST without request_report whose AI reply got sequence 7 has
\* returned with its report, after a POST without request_report and without report
C27_Witness ==
    \E p, q \in 1..MaxPosts :
        /\ posts[p].at = "returned" /\ posts[q].at = "returned"
        /\ posts[p].request_report.kind = "none"
        /\ posts[q].request_report.kind = "none"
        /\ \E j \in RepliesOf(p) : messages[j].sequence = 7
        /\ Cardinality(ReportsOf(p)) = 1
        /\ ReportsOf(q) = {}

\* C28: when a handler stores a report, the analysis_data it passed holds no
\* pain_intensity key and the stored severity_level is the marker parsed from the
\* narrative, or green when the template was used.
C28_Step ==
    reports' # reports =>
        /\ "pain_intensity" \notin DOMAIN analysis_data
        /\ reports'[Len(reports')].severity_level =
               (IF reportPath = "delegated"
                THEN ParseSeverity(narrative).severity_level ELSE "green")

C28_SeverityIgnoresRequestPain == [][C28_Step]_vars

\* C28 witness: create_conversation and a message POST, both with pain_intensity 8
\* in their request_report, have each stored a green report
C28_Witness ==
    /\ \E i \in DOMAIN reports :
           /\ reports[i].post = Creation
           /\ posts[Creation].request_report.pain_intensity = 8
           /\ reports[i].severity_level = "green"
    /\ \E i \in DOMAIN reports :
           /\ reports[i].post # Creation
           /\ posts[reports[i].post].request_report.pain_intensity = 8
           /\ reports[i].severity_level = "green"

\* C29: no two messages of the conversation have the same sequence number, also
\* when POSTs are in flight together.
C29_SequencesDistinct ==
    \A i, j \in DOMAIN messages :
        i # j => messages[i].sequence # messages[j].sequence

\* a report stored by a request that carried no request_report
Automatic(i) == posts[reports[i].post].request_report.kind = "none"

UserRowsUpTo(n) ==
    {j \in DOMAIN messages : messages[j].sender = "user" /\ messages[j].sequence <= n}

====
